---- MODULE Spec2Model ----
(***************************************************************************)
(* A model of core_single_cpu.c, the single-CPU HPCC RandomAccess (GUPS)   *)
(* kernel: the LFSR sequence generator with its jump-ahead HPCC_starts,    *)
(* the 128-stream table updater RandomAccessUpdate, and the driver main    *)
(* with its table sizing, serial verification pass and verdict.            *)
(*                                                                         *)
(* A 64-bit word (uint64_t, int64_t) is the set of the positions of its    *)
(* one bits, a subset of 0..63: TLC's integers are 32 bits wide, and the   *)
(* code's shifts, XORs, sign tests and masks are exact on bit sets.  An    *)
(* int64_t is the same set read in two's complement (bit 63 is the sign).  *)
(*                                                                         *)
(* The wall-clock timing around RandomAccessUpdate and the GUP/s figure    *)
(* printed from it are left out: nothing else in the program reads them.   *)
(***************************************************************************)
EXTENDS Integers, Sequences, FiniteSets, TLC

(***************************************************************************)
(* 64-bit machine words                                                    *)
(***************************************************************************)

\* The width of uint64_t and int64_t.
WordBits == 64

BitPos == 0 .. (WordBits - 1)

SignBit == WordBits - 1

Pow2(k) == 2 ^ k

\* The word whose value is the natural number v (v < 2^31).
ToWord(v) == { b \in 0 .. 30 : (v \div (2 ^ b)) % 2 = 1 }

\* a ^ b
Xor(a, b) == { x \in BitPos : (x \in a) # (x \in b) }

\* a << k on 64 bits: the bits shifted past bit 63 are lost.
Shl(a, k) == { x \in BitPos : (x - k) \in a }

Bit(a, b) == IF b \in a THEN 1 ELSE 0

\* TRUE for every v.  TLC computes an operator's argument only when it is
\* first used; building the set {v} makes it compute v at this point.
Computed(v) == {v} # {}

\* for (k = lo; k <= hi; k++) s = Body(k, s): the loop's final state.  The
\* range is run as its two halves in turn, the first half's result computed
\* before the second half starts: the same bodies composed in the same
\* order, with an evaluation depth logarithmic in the number of passes.
RECURSIVE For(_, _, _, _)
For(Body(_, _), lo, hi, s) ==
  IF lo > hi THEN s
  ELSE IF lo = hi THEN Body(lo, s)
  ELSE LET mid  == (lo + hi) \div 2
           left == For(Body, lo, mid, s)
       IN  IF Computed(left) THEN For(Body, mid + 1, hi, left) ELSE left

\* a + b + c0 modulo 2^64, by ripple carry: the loop state is <<sum, carry>>.
AddCarry(a, b, c0) ==
  LET Body(i, st) ==
        LET t == Bit(a, i) + Bit(b, i) + st[2]
        IN  <<IF t % 2 = 1 THEN { x \in BitPos : x \in st[1] \/ x = i }
              ELSE st[1],
              t \div 2>>
  IN  For(Body, 0, WordBits - 1, <<{}, c0>>)[1]

Add64(a, b) == AddCarry(a, b, 0)

\* a - b modulo 2^64: a + ~b + 1.
Sub64(a, b) == AddCarry(a, BitPos \ b, 1)

MaxOf(S) == CHOOSE x \in S : \A y \in S : y <= x

\* a > b as unsigned words: the highest bit in which they differ is a's.
UGt(a, b) == LET d == Xor(a, b) IN d # {} /\ MaxOf(d) \in a

\* a > b as int64_t.
SGt(a, b) ==
  IF (SignBit \in a) # (SignBit \in b) THEN SignBit \in b ELSE UGt(a, b)

\* (int64_t) a < 0
IsNeg(a) == SignBit \in a

\* The word a decimal literal denotes: acc = acc * 10 + digit, left to right.
FromDecimal(ds) ==
  For(LAMBDA k, acc : Add64(Add64(Shl(acc, 3), Shl(acc, 1)), ToWord(ds[k])),
      1, Len(ds), {})

(***************************************************************************)
(* The generator                                                           *)
(***************************************************************************)

\* #define POLY 0x0000000000000007UL
POLY == ToWord(7)

\* #define PERIOD 1317624576693539401L
PERIOD == FromDecimal(<<1,3,1,7,6,2,4,5,7,6,6,9,3,5,3,9,4,0,1>>)

\* The transition rule without the feedback of POLY.
NextRanNoFeedback(r) == Shl(r, 1)

\* The transition rule: (ran << 1) ^ ((int64_t) ran < 0 ? POLY : 0).
NextRan(r) == Xor(Shl(r, 1), IF IsNeg(r) THEN POLY ELSE {})

\* while (n < 0) n += PERIOD;
RECURSIVE NormNeg(_)
NormNeg(n) == IF IsNeg(n) THEN NormNeg(Add64(n, PERIOD)) ELSE n

\* The second loop written with n >= PERIOD.
RECURSIVE NormPosInclusive(_)
NormPosInclusive(n) ==
  IF SGt(n, PERIOD) \/ n = PERIOD THEN NormPosInclusive(Sub64(n, PERIOD))
  ELSE n

\* while (n > PERIOD) n -= PERIOD;
RECURSIVE NormPos(_)
NormPos(n) == IF SGt(n, PERIOD) THEN NormPos(Sub64(n, PERIOD)) ELSE n

Normalize(n) == NormPos(NormNeg(n))

\* temp = 0x1;
\* for (i=0; i<64; i++) { m2[i] = temp; temp = step(temp); temp = step(temp); }
\* The loop state is <<m2, temp>>; the C array m2[0..63] is the sequence m2,
\* the code's m2[i] being m2[i + 1].
m2 ==
  For(LAMBDA i, st : <<Append(st[1], st[2]), NextRan(NextRan(st[2]))>>,
      0, WordBits - 1, <<<<>>, ToWord(1)>>)[1]

\* for (i=62; i>=0; i--) if ((n >> i) & 1) break;
\* The value of i after the loop: the highest set bit of n below bit 63, or
\* -1 when there is none.
TopBit(n) ==
  LET low == n \cap (0 .. 62) IN IF low = {} THEN -1 ELSE MaxOf(low)

\* temp = 0; for (j=0; j<64; j++) if ((ran >> j) & 1) temp ^= m2[j];
Square(ran) ==
  LET Body(j, temp) == IF j \in ran THEN Xor(temp, m2[j + 1]) ELSE temp
  IN  For(Body, 0, WordBits - 1, {})

\* The exponentiation testing bit i of n before i is decremented.
ExpoOffByOne(n, top) ==
  LET Body(k, ran) ==
        LET sq == Square(ran)
            i  == top - k + 1
        IN  IF i \in n THEN NextRan(sq) ELSE sq
  IN  For(Body, 1, top, ToWord(2))

\* ran = 0x2;
\* while (i > 0) { ran = Square(ran); i -= 1; if ((n >> i) & 1) ran = step(ran); }
\* with i starting at top: the k-th pass runs with i = top - k + 1.
Expo(n, top) ==
  LET Body(k, ran) ==
        LET sq == Square(ran)
            i  == top - k
        IN  IF i \in n THEN NextRan(sq) ELSE sq
  IN  For(Body, 1, top, ToWord(2))

\* HPCC_starts(n): the generator's state n steps after state 1.
HPCC_starts(n) ==
  LET nn == Normalize(n)
  IN  IF nn = {} THEN ToWord(1)
      ELSE Expo(nn, TopBit(nn))

(***************************************************************************)
(* Bounds of the model                                                     *)
(***************************************************************************)

\* The update, verification and counting loops are run for tables of at
\* most 2^MaxLogTable words; larger tables are sized and allocated only.
MaxLogTable == 10

MaxTableSize == Pow2(MaxLogTable)

\* The budgets that are not a power of two are 3 * 2^x bytes with x at most
\* MaxLogOdd.
MaxLogOdd == 9

(***************************************************************************)
(* main's arithmetic                                                       *)
(***************************************************************************)

\* A double of value m * 2^x, which is how the code's totalMem is held:
\* dividing by 8 and multiplying by 0.5 change the exponent only, exactly.
Dbl(m, x) == [m |-> m, x |-> x]

\* sizeof(uint64_t) is 8 = 2^3.
LogWordBytes == 3

\* The division done with a word of 16 bytes.
DivWordSizeWide(d) == [d EXCEPT !.x = @ - (LogWordBytes + 1)]

\* totalMem /= sizeof(uint64_t)
DivWordSize(d) == [d EXCEPT !.x = @ - LogWordBytes]

\* totalMem *= 0.5
Halve(d) == [d EXCEPT !.x = @ - 1]

\* totalMem >= 1.0
AtLeastOne(d) == IF d.x >= 0 THEN d.m >= 1 ELSE d.m >= Pow2(-d.x)

\* totalMem = 1UL<<32
NominalMem == Dbl(1, 32)

\* The memory budgets main is run with: the program's own 2^32 bytes and, for
\* the reduced tables, 2^x and 3 * 2^x bytes.
Budgets ==
  {NominalMem} \cup
  { Dbl(1, x) : x \in 0 .. (MaxLogTable + LogWordBytes) } \cup
  { Dbl(3, x) : x \in 0 .. MaxLogOdd }

\* Eight updates per table entry.
NUPDATEDouble(TableSize) == 8 * TableSize

\* #define NUPDATE (4 * TableSize)
NUPDATE(TableSize) == 4 * TableSize

\* The number of interleaved streams: uint64_t ran[128].
NStreams == 128

\* Every stream started one term late.
StartOffsetSkew(TableSize, j) == (NUPDATE(TableSize) \div NStreams) * j + 1

\* The streams started one term apart.
StartOffsetNoStride(TableSize, j) == j

\* (NUPDATE/128) * j: where stream j starts in the sequence.
StartOffset(TableSize, j) == (NUPDATE(TableSize) \div NStreams) * j

\* The value of a word below 2^31.
WordVal(w) == For(LAMBDA b, v : IF b \in w THEN v + 2 ^ b ELSE v, 0, 30, 0)

\* a & b
And(a, b) == a \cap b

\* The index taken with a mask one bit short.
IndexHalfMask(v, TableSize) ==
  WordVal(And(v, ToWord((TableSize - 1) \div 2)))

\* The table index ran & (TableSize-1).
Index(v, TableSize) == WordVal(And(v, ToWord(TableSize - 1)))

\* The update done with |= in place of ^=.
UpdateOr(Table, TableSize, v) ==
  [Table EXCEPT ![Index(v, TableSize)] = @ \cup v]

\* Table[ran & (TableSize-1)] ^= ran
Update(Table, TableSize, v) ==
  [Table EXCEPT ![Index(v, TableSize)] = Xor(@, v)]

\* The verdict with the comparison turned round.
PassedInverted(temp, TableSize) == 100 * WordVal(temp) >= TableSize

\* temp <= 0.01*TableSize, temp being the error count.  0.01 is the double
\* 0.01 * (1 + e) with 0 < e < 2^-55 and the product with a power of two
\* TableSize <= 2^29 is exact, so for integers the test is
\* 100 * temp <= TableSize.
Passed(temp, TableSize) == 100 * WordVal(temp) <= TableSize

(***************************************************************************)
(* The program state                                                       *)
(***************************************************************************)

VARIABLES
  pc,            \* the position in main / RandomAccessUpdate
  totalMem,      \* main's double totalMem
  logTableSize,  \* main's logTableSize
  TableSize,     \* main's TableSize
  Table,         \* the table: a function from the indices written so far
  ran,           \* RandomAccessUpdate's ran[], over the streams started so far
  i,             \* the loop counter i of the running function
  j,             \* RandomAccessUpdate's loop counter j
  temp,          \* main's temp: the serial generator, then the error count
  verdict,       \* the verdict printed by the last printf, "" before it
  budget,        \* history: the memory budget main started with
  applied,       \* history: the values the call of RandomAccessUpdate XORed in
  n,             \* generator tests: the argument given to HPCC_starts
  started,       \* generator tests: the value HPCC_starts returned
  iter,          \* generator tests: the number of scalar steps taken
  scalar         \* generator tests: the state the scalar steps reached

\* The variables of the generator tests, which main leaves alone.
harness == <<n, started, iter, scalar>>

\* The variables of main and RandomAccessUpdate.
program == <<pc, totalMem, logTableSize, TableSize, Table, ran, i, j, temp,
             verdict, budget, applied>>

vars == <<program, harness>>

HarnessIdle == n = {} /\ started = {} /\ iter = 0 /\ scalar = {}

Init ==
  /\ pc = "main"
  /\ budget \in Budgets
  /\ totalMem = budget
  /\ HarnessIdle
  /\ logTableSize = 0
  /\ TableSize = 0
  /\ Table = <<>>
  /\ ran = <<>>
  /\ i = 0
  /\ j = 0
  /\ temp = {}
  /\ verdict = ""
  /\ applied = <<>>

\* totalMem /= sizeof(uint64_t); and the sizing loop's initialisation.
CalcMem ==
  /\ pc = "main"
  /\ totalMem' = Halve(DivWordSize(totalMem))
  /\ logTableSize' = 0
  /\ TableSize' = 1
  /\ pc' = "sizing"
  /\ UNCHANGED <<Table, ran, i, j, temp, verdict, applied, budget,
                 harness>>

\* One pass of the sizing loop.
SizeStep ==
  /\ pc = "sizing"
  /\ AtLeastOne(totalMem)
  /\ totalMem' = Halve(totalMem)
  /\ logTableSize' = logTableSize + 1
  /\ TableSize' = 2 * TableSize
  /\ UNCHANGED <<pc, Table, ran, i, j, temp, verdict, applied, budget,
                 harness>>

\* The sizing loop ends; malloc returns the table, its words not yet written.
Alloc ==
  /\ pc = "sizing"
  /\ ~AtLeastOne(totalMem)
  /\ pc' = "fill"
  /\ Table' = <<>>
  /\ i' = 0
  /\ UNCHANGED <<totalMem, logTableSize, TableSize, ran, j, temp, verdict,
                 applied, budget, harness>>

\* malloc returns NULL: assert(Table != NULL) aborts the program.
AllocFail ==
  /\ pc = "sizing"
  /\ ~AtLeastOne(totalMem)
  /\ pc' = "aborted"
  /\ UNCHANGED <<totalMem, logTableSize, TableSize, Table, ran, i, j, temp,
                 verdict, applied, budget, harness>>

\* Table[i] = i
FillStep ==
  /\ pc = "fill"
  /\ TableSize <= MaxTableSize
  /\ i < TableSize
  /\ Table' = (i :> ToWord(i)) @@ Table
  /\ i' = i + 1
  /\ UNCHANGED <<pc, totalMem, logTableSize, TableSize, ran, j, temp,
                 verdict, applied, budget, harness>>

\* The fill loop ends; main calls RandomAccessUpdate(TableSize, Table).
FillDone ==
  /\ pc = "fill"
  /\ TableSize <= MaxTableSize
  /\ i = TableSize
  /\ pc' = "starts"
  /\ ran' = <<>>
  /\ j' = 0
  /\ UNCHANGED <<totalMem, logTableSize, TableSize, Table, i, temp, verdict,
                 applied, budget, harness>>

\* ran[j] = HPCC_starts((NUPDATE/128) * j)
StartsStep ==
  /\ pc = "starts"
  /\ j < NStreams
  /\ ran' = (j :> HPCC_starts(ToWord(StartOffset(TableSize, j)))) @@ ran
  /\ j' = j + 1
  /\ UNCHANGED <<pc, totalMem, logTableSize, TableSize, Table, i, temp,
                 verdict, applied, budget, harness>>

StartsDone ==
  /\ pc = "starts"
  /\ j = NStreams
  /\ i' = 0
  /\ pc' = "outer"
  /\ UNCHANGED <<totalMem, logTableSize, TableSize, Table, ran, j, temp,
                 verdict, applied, budget, harness>>

\* The test i < NUPDATE/128 of the outer loop: another pass over the streams.
OuterEnter ==
  /\ pc = "outer"
  /\ i < NUPDATE(TableSize) \div NStreams
  /\ j' = 0
  /\ pc' = "inner"
  /\ UNCHANGED <<totalMem, logTableSize, TableSize, Table, ran, i, temp,
                 verdict, applied, budget, harness>>

\* The outer loop ends and RandomAccessUpdate returns: ran[] is gone.
OuterExit ==
  /\ pc = "outer"
  /\ ~(i < NUPDATE(TableSize) \div NStreams)
  /\ ran' = <<>>
  /\ pc' = "timed"
  /\ UNCHANGED <<totalMem, logTableSize, TableSize, Table, i, j, temp,
                 verdict, applied, budget, harness>>

\* ran[j] = step(ran[j]); Table[ran[j] & (TableSize-1)] ^= ran[j];
InnerStep ==
  /\ pc = "inner"
  /\ j < NStreams
  /\ ran' = [ran EXCEPT ![j] = NextRan(@)]
  /\ Table' = Update(Table, TableSize, ran'[j])
  /\ applied' = Append(applied, ran'[j])
  /\ j' = j + 1
  /\ UNCHANGED <<pc, totalMem, logTableSize, TableSize, i, temp, verdict,
                 budget, harness>>

InnerDone ==
  /\ pc = "inner"
  /\ j = NStreams
  /\ i' = i + 1
  /\ pc' = "outer"
  /\ UNCHANGED <<totalMem, logTableSize, TableSize, Table, ran, j, temp,
                 verdict, applied, budget, harness>>

\* After the timed section: temp = 0x1 and the verification loop starts.
\* The record of what RandomAccessUpdate applied ends with the timed section.
VerifyInit ==
  /\ pc = "timed"
  /\ temp' = ToWord(1)
  /\ i' = 0
  /\ applied' = <<>>
  /\ pc' = "verify"
  /\ UNCHANGED <<totalMem, logTableSize, TableSize, Table, ran, j, verdict,
                 budget, harness>>

\* temp = step(temp); Table[temp & (TableSize-1)] ^= temp;
VerifyStep ==
  /\ pc = "verify"
  /\ i < NUPDATE(TableSize)
  /\ temp' = NextRan(temp)
  /\ Table' = Update(Table, TableSize, temp')
  /\ i' = i + 1
  /\ UNCHANGED <<pc, totalMem, logTableSize, TableSize, ran, j, verdict,
                 applied, budget, harness>>

\* The verification loop ends; temp = 0 and the counting loop starts.
VerifyDone ==
  /\ pc = "verify"
  /\ i = NUPDATE(TableSize)
  /\ temp' = {}
  /\ i' = 0
  /\ pc' = "count"
  /\ UNCHANGED <<totalMem, logTableSize, TableSize, Table, ran, j, verdict,
                 applied, budget, harness>>

\* if (Table[i] != i) temp++;
CountStep ==
  /\ pc = "count"
  /\ i < TableSize
  /\ temp' = IF Table[i] # ToWord(i) THEN Add64(temp, ToWord(1)) ELSE temp
  /\ i' = i + 1
  /\ UNCHANGED <<pc, totalMem, logTableSize, TableSize, Table, ran, j,
                 verdict, applied, budget, harness>>

\* The last printf, with its verdict, and free(Table).
Report ==
  /\ pc = "count"
  /\ i = TableSize
  /\ verdict' = IF Passed(temp, TableSize) THEN "passed" ELSE "failed"
  /\ Table' = <<>>
  /\ pc' = "done"
  /\ UNCHANGED <<totalMem, logTableSize, TableSize, ran, i, j, temp, applied,
                 budget, harness>>

Next ==
  \/ CalcMem \/ SizeStep \/ Alloc \/ AllocFail
  \/ FillStep \/ FillDone
  \/ StartsStep \/ StartsDone
  \/ OuterEnter \/ OuterExit \/ InnerStep \/ InnerDone
  \/ VerifyInit \/ VerifyStep \/ VerifyDone
  \/ CountStep \/ Report

Spec == Init /\ [][Next]_vars

(***************************************************************************)
(* The generator on its own: HPCC_starts against the scalar rule           *)
(***************************************************************************)

\* The largest n for which HPCC_starts(n) is compared with n scalar steps.
MaxN == 10000

\* main is not running: none of its actions is enabled.
ProgramIdle ==
  /\ pc = "test"
  /\ budget = NominalMem
  /\ totalMem = NominalMem
  /\ logTableSize = 0
  /\ TableSize = 0
  /\ Table = <<>>
  /\ ran = <<>>
  /\ i = 0
  /\ j = 0
  /\ temp = {}
  /\ verdict = ""
  /\ applied = <<>>

\* ran = 1 and no step taken; HPCC_starts(0) has been called.
InitStarts ==
  /\ ProgramIdle
  /\ n = {}
  /\ started = HPCC_starts({})
  /\ iter = 0
  /\ scalar = ToWord(1)

\* One more scalar step, and HPCC_starts called with the number of steps.
StepAndStart ==
  /\ pc = "test"
  /\ iter < MaxN
  /\ iter' = iter + 1
  /\ scalar' = NextRan(scalar)
  /\ n' = ToWord(iter + 1)
  /\ started' = HPCC_starts(n')
  /\ UNCHANGED program

SpecStarts == InitStarts /\ [][StepAndStart]_vars

(***************************************************************************)
(* The generator on its own: HPCC_starts over the int64_t range            *)
(***************************************************************************)

\* The arguments tried are r + k * PERIOD for the residues r below and every
\* k for which the sum is an int64_t.
MaxResidue == 8

\* The int64_t of a small integer.
Int64Of(v) == IF v >= 0 THEN ToWord(v) ELSE Sub64({}, ToWord(-v))

\* Small residues of either sign, and two families of large ones.
Residues ==
  { Int64Of(r) : r \in (-MaxResidue) .. MaxResidue } \cup
  { Shl(ToWord(r), 29) : r \in 1 .. MaxResidue } \cup
  { Shl(ToWord(r), 55) : r \in 1 .. MaxResidue }

\* -6 * PERIOD
MinusSixPeriods == For(LAMBDA k, acc : Sub64(acc, PERIOD), 1, 6, {})

\* n + PERIOD is an int64_t: the signed sum does not overflow.
CanAddPeriod(v) == IsNeg(v) \/ ~IsNeg(Add64(v, PERIOD))

InitPeriod ==
  /\ ProgramIdle
  /\ \E r \in Residues : n = Add64(r, MinusSixPeriods)
  /\ started = HPCC_starts(n)
  /\ iter = 0
  /\ scalar = {}

\* HPCC_starts called with the argument one PERIOD further on.
AddPeriod ==
  /\ pc = "test"
  /\ CanAddPeriod(n)
  /\ n' = Add64(n, PERIOD)
  /\ started' = HPCC_starts(n')
  /\ UNCHANGED <<program, iter, scalar>>

SpecPeriod == InitPeriod /\ [][AddPeriod]_vars

(***************************************************************************)
(* The generator on its own: long runs of the scalar rule                  *)
(***************************************************************************)

\* The number of scalar steps taken from state 1.
MaxIter == 1000000

\* The number of scalar steps taken from each other seed.
MaxSeedIter == 64

\* The seeds other than 1 are the words of the values 2 .. MaxSeed and
\* their complements.
MaxSeed == 16

Seeds ==
  { ToWord(v) : v \in 1 .. MaxSeed } \cup
  { BitPos \ ToWord(v) : v \in 1 .. MaxSeed }

InitRun ==
  /\ ProgramIdle
  /\ n \in Seeds
  /\ scalar = n
  /\ started = {}
  /\ iter = 0

\* ran = step(ran)
RunStep ==
  /\ pc = "test"
  /\ iter < (IF n = ToWord(1) THEN MaxIter ELSE MaxSeedIter)
  /\ scalar' = NextRan(scalar)
  /\ iter' = iter + 1
  /\ UNCHANGED <<program, n, started>>

\* main and, beside it, the long scalar runs.
InitAll == Init \/ InitRun

NextAll == Next \/ RunStep

SpecRuns == InitAll /\ [][NextAll]_vars

(***************************************************************************)
(* Reference computations                                                  *)
(***************************************************************************)

\* Table[x] = x for every x: the table as main fills it.
Identity(size) == [x \in 0 .. (size - 1) |-> ToWord(x)]

\* The scalar equivalent given in RandomAccessUpdate's comment, on the
\* identity table: ran = 1; NUPDATE times { ran = step(ran);
\* table[ran & (TableSize-1)] ^= ran; }.  The loop state is <<ran, table>>.
ScalarTable(size) ==
  For(LAMBDA k, st : <<NextRan(st[1]), Update(st[2], size, NextRan(st[1]))>>,
      1, NUPDATE(size), <<ToWord(1), Identity(size)>>)[2]

\* Terms 1 .. len of the sequence that starts at state 1 (term 0).
ScalarTerms(len) ==
  For(LAMBDA k, sq :
        Append(sq, NextRan(IF k = 1 THEN ToWord(1) ELSE sq[k - 1])),
      1, len, <<>>)

\* v mod size for the 64-bit value of v, by Horner's rule from bit 63 down.
ModIndex(v, size) ==
  For(LAMBDA k, acc : (2 * acc + Bit(v, WordBits - 1 - k)) % size,
      0, WordBits - 1, 0)

\* The error count e and the tolerance: e <= 0.01 * TableSize.
WithinTolerance == 100 * WordVal(temp) <= TableSize

\* main is past the sizing loop.
Sized == pc \notin {"main", "sizing", "test"}

(***************************************************************************)
(* The claims                                                              *)
(***************************************************************************)

\* C1: for every n in 0 .. MaxN (10000), HPCC_starts(n) is exactly the state
\* reached by n scalar steps from state 1; HPCC_starts(0) = 1 and
\* HPCC_starts(1) = 2.
StartsEqualsScalar ==
  /\ n = ToWord(iter)
  /\ started = scalar
  /\ (iter = 0 => started = ToWord(1))
  /\ (iter = 1 => started = ToWord(2))

\* C1 witness: HPCC_starts(MaxN) has been compared with MaxN scalar steps.
StartsComparedAtMax == iter = MaxN /\ n = ToWord(MaxN) /\ started = scalar

\* C2: when NUPDATE is a multiple of 128, the table RandomAccessUpdate
\* leaves is, at every index, the table the single serial stream leaves.
SerialEquivalent ==
  (pc = "timed" /\ NUPDATE(TableSize) % NStreams = 0)
    => Table = ScalarTable(TableSize)

\* C2 witness: RandomAccessUpdate has returned from a table of 128 words
\* that it changed.
UpdatedTable128 ==
  pc = "timed" /\ TableSize = 128 /\ Table # Identity(TableSize)

PeriodicStarts ==
  [][ /\ started' = started
      /\ (n = {} =>
            /\ started = ToWord(1)
            /\ n' = PERIOD
            /\ Normalize(n') = PERIOD
            /\ started' = Expo(PERIOD, TopBit(PERIOD))) ]_vars

\* C4 witness: HPCC_starts(PERIOD) has been called and returned 1.
StartedAtPeriod == n = PERIOD /\ started = ToWord(1)

\* C5 as stated: from the 2^32-byte budget main sizes the table to 2^28
\* words, half of the budget.
HalfBudgetTable ==
  (Sized /\ budget = NominalMem)
    => (logTableSize = 28 /\ TableSize = 2 ^ 28)

\* C5 as amended: TableSize = 2^logTableSize is the largest power of two not
\* exceeding budget / 8 words (1 when the budget is less than a word), which
\* for the 2^32-byte budget is 2^29 words: the whole budget.
WholeBudgetTable ==
  Sized =>
    /\ TableSize = 2 ^ logTableSize
    /\ LET e == budget.x - LogWordBytes
       IN  IF e >= 0
           THEN LET words == budget.m * (2 ^ e)
                IN  TableSize <= words /\ words < 2 * TableSize
           ELSE IF budget.m >= 2 ^ (-e)
                THEN /\ TableSize * (2 ^ (-e)) <= budget.m
                     /\ budget.m < 2 * TableSize * (2 ^ (-e))
                ELSE TableSize = 1
    /\ (budget = NominalMem =>
          /\ logTableSize = 29
          /\ Dbl(1, logTableSize + LogWordBytes) = NominalMem)

\* C5 witness: the table for the 2^32-byte budget has been allocated.
NominalTableAllocated ==
  pc = "fill" /\ budget = NominalMem /\ TableSize = 2 ^ 29

\* C6: for TableSize >= 128 one call of RandomAccessUpdate applies exactly
\* 128 * (NUPDATE/128) = NUPDATE values, which are terms 1 .. NUPDATE of the
\* sequence from state 1, each once: pass p of stream s applies term
\* (NUPDATE/128) * s + p + 1; term 0, the start state 1, is not applied, and
\* no stream applies its own start state: it steps first.
AppliedOnce ==
  (pc = "timed" /\ TableSize >= 128) =>
    LET len    == NUPDATE(TableSize)
        stride == len \div NStreams
        terms  == ScalarTerms(len)
        values == { applied[p] : p \in 1 .. Len(applied) }
    IN  /\ Len(applied) = len
        /\ NStreams * stride = len
        /\ values = { terms[p] : p \in 1 .. len }
        /\ Cardinality(values) = len
        /\ ToWord(1) \notin values
        /\ \A p \in 1 .. len :
             applied[p] =
               terms[stride * ((p - 1) % NStreams) + ((p - 1) \div NStreams) + 1]
        /\ \A s \in 0 .. (NStreams - 1) :
             LET start == HPCC_starts(ToWord(StartOffset(TableSize, s)))
             IN  /\ applied[s + 1] = NextRan(start)
                 /\ \A p \in 0 .. (stride - 1) :
                      applied[NStreams * p + s + 1] # start

\* C6 witness: RandomAccessUpdate has returned from a table of at least 128
\* words, after more than one pass over the streams.
UpdatedLargeTable ==
  pc = "timed" /\ TableSize >= 128 /\ Len(applied) > NStreams

\* C7: the generator never enters state 0: no ran[] of RandomAccessUpdate,
\* no temp of the verification pass and no state of a scalar run (MaxIter
\* steps from state 1, MaxSeedIter from the other seeds) is 0.
NeverZero ==
  /\ \A s \in DOMAIN ran : ran[s] # {}
  /\ (pc = "verify" => temp # {})
  /\ (pc = "test" => scalar # {})

\* C7 witness: the scalar run from state 1 has taken the step that shifts
\* its only set bit out of the word, and the feedback has made the state POLY.
FeedbackTaken ==
  pc = "test" /\ n = ToWord(1) /\ iter = WordBits /\ scalar = POLY

\* C8: TableSize is 2^logTableSize; every update of RandomAccessUpdate and
\* of the verification pass is at the index value & (TableSize-1), which is
\* value mod TableSize and lies in 0 .. TableSize-1, and XORs the value into
\* that word; no other step of the two changes the table.
MaskedXorOnly ==
  [][ /\ TableSize' = 2 ^ logTableSize'
      /\ (pc \in {"starts", "outer", "inner", "timed", "verify"} =>
            IF (pc = "inner" /\ j' = j + 1) \/ (pc = "verify" /\ i' = i + 1)
            THEN \A v \in {IF pc = "inner" THEN ran'[j] ELSE temp'} :
                   \A x \in {Index(v, TableSize)} :
                     /\ x = ModIndex(v, TableSize)
                     /\ x \in 0 .. (TableSize - 1)
                     /\ x \in DOMAIN Table
                     /\ Table' = [Table EXCEPT ![x] = Xor(@, v)]
            ELSE Table' = Table) ]_vars

\* C8 witness: an update of RandomAccessUpdate on a table of 128 has just
\* reduced a value of more than 7 bits to an index in the upper half.
UpperHalfUpdated ==
  /\ pc = "inner"
  /\ j > 0
  /\ TableSize = 128
  /\ ran[j - 1] \ (0 .. (logTableSize - 1)) # {}
  /\ Index(ran[j - 1], TableSize) >= TableSize \div 2

\* C9: for TableSize >= 32 the verification pass undoes the update phase:
\* afterwards Table[x] = x everywhere, the error count is 0 and the verdict
\* is "passed".
VerifyRestores ==
  TableSize >= 32 =>
    /\ (pc = "count" => Table = Identity(TableSize))
    /\ (pc = "done" => temp = {} /\ verdict = "passed")

\* C9 witness: the counting loop has run over a restored table of 32 words.
Restored32 ==
  pc = "count" /\ TableSize = 32 /\ i = TableSize /\ temp = {}

====
